---- MODULE Spec2Model ----
(***************************************************************************)
(* The paste lifecycle of src/app.py: the Paste table, slug validation and *)
(* allocation, the create handler (index), the read handler (view_paste)   *)
(* and the password-gated edit handler (edit_paste), run by concurrent     *)
(* request workers against one database.                                   *)
(*                                                                         *)
(* Strings the code inspects character by character (slugs) are sequences  *)
(* of one-character strings; content and passwords, which the code only    *)
(* tests for emptiness and compares, are plain strings.                    *)
(***************************************************************************)
EXTENDS Integers, Sequences, FiniteSets, TLC

(***************************************************************************)
(* Bounds of the model.                                                    *)
(***************************************************************************)
\* requests admitted past validation (creates) or past the lookup (edits) in a run
MaxRequests == 3
\* the clock runs from 0 to MaxTime
MaxTime == 1

\* the concurrent request workers of the server
Workers == {1, 2}

(***************************************************************************)
(* Program constants.                                                      *)
(***************************************************************************)
\* db.String(80) of Paste.slug
SlugColumnLen == 80
\* generate_unique_slug(length=8)
DefaultSlugBytes == 8

(***************************************************************************)
(* Strings.                                                                *)
(***************************************************************************)
Repeat(c, n) == [i \in 1..n |-> c]

Lower == {"a","b","c","d","e","f","g","h","i","j","k","l","m",
          "n","o","p","q","r","s","t","u","v","w","x","y","z"}
Upper == {"A","B","C","D","E","F","G","H","I","J","K","L","M",
          "N","O","P","Q","R","S","T","U","V","W","X","Y","Z"}
Digits == {"0","1","2","3","4","5","6","7","8","9"}

\* the character class [a-zA-Z0-9_-] of the regular expression
SlugChars == Lower \cup Upper \cup Digits \cup {"_", "-"}

\* the characters str.strip() removes (the ASCII ones)
Whitespace == {" ", "\t", "\n", "\r", "\f"}

RECURSIVE lstrip(_)
lstrip(s) == IF s # <<>> /\ Head(s) \in Whitespace THEN lstrip(Tail(s)) ELSE s

RECURSIVE rstrip(_)
rstrip(s) == IF s # <<>> /\ s[Len(s)] \in Whitespace
             THEN rstrip(SubSeq(s, 1, Len(s) - 1)) ELSE s

\* str.strip() as the create handler applies it to the custom_slug field
strip(s) == rstrip(lstrip(s))

\* re.match(r'^[a-zA-Z0-9_-]+$', slug): one or more class characters from the
\* start; '$' matches at the end and also just before one trailing newline
re_match(s) ==
    \E n \in {Len(s) - 1, Len(s)} :
        /\ n >= 1
        /\ \A i \in 1..n : s[i] \in SlugChars
        /\ n < Len(s) => s[Len(s)] = "\n"

\* is_safe_slug(slug): slug and re.match(...) is not None
is_safe_slug_search(slug) == slug # <<>> /\ \E i \in 1..Len(slug) : slug[i] \in SlugChars
is_safe_slug(slug) == slug # <<>> /\ re_match(slug)

\* `not content`, `not password`: the form value is empty
is_empty_never(v) == FALSE
is_empty(v) == v = ""

(***************************************************************************)
(* Password hashing (werkzeug): a salted one-way hash and its verifier.    *)
(***************************************************************************)
Salts == {"s1"}

generate_password_hash(password, salt) ==
    [salt |-> salt, digest |-> <<salt, password>>]

check_password_hash_any(pwhash, password) == TRUE
check_password_hash(pwhash, password) ==
    pwhash.digest = <<pwhash.salt, password>>

(***************************************************************************)
(* Inputs.                                                                 *)
(***************************************************************************)
\* custom_slug form values: absent or blank, valid, padded with whitespace,
\* holding a character outside the class, and past the width of the column
BlankSlugs == {<<>>, <<" ">>}
PlainSlugs == {<<"a">>}
PaddedSlugs == {<<" ", "a">>, <<"a", "\n">>, <<"\t", "a", " ">>}
BadSlugs == {<<"!">>, <<"a", "!">>, <<"a", "\n", "a">>,
             <<"m","y"," ","p","o","s","t","!">>}
LongSlugs == {Repeat("a", SlugColumnLen + 1)}
FormSlugs == BlankSlugs \cup PlainSlugs \cup PaddedSlugs \cup BadSlugs \cup LongSlugs

\* secrets.token_urlsafe(length): 4 characters of [A-Za-z0-9_-] per 3 bytes
TokenLen(length) == (4 * length + 2) \div 3
Tokens == {Repeat(c, TokenLen(DefaultSlugBytes)) : c \in {"_"}}

\* the slugs a URL /<slug> or /<slug>/edit is requested with
UrlSlugs == {s \in {strip(r) : r \in FormSlugs} : s # <<>>} \cup Tokens

\* content and password are only tested for emptiness and compared: a paste
\* is born with one non-empty value of each, an edit also submits a second
CreateContents == {"", "x"}
CreatePasswords == {"", "p"}
EditContents == {"", "x", "y"}
EditPasswords == {"", "p", "q"}

Backends == {"sqlite", "postgresql"}

(***************************************************************************)
(* State.                                                                  *)
(***************************************************************************)
VARIABLES
    backend,    \* the database DATABASE_URL names
    pastes,     \* the rows of the Paste table, in id order
    now,        \* datetime.now(timezone.utc)
    pc,         \* where each worker's request stands
    loc,        \* the locals of each worker's request
    ev,         \* the handler step just taken: its inputs and its response
    edited,     \* ids of the rows an edit has reported as updated
    served      \* requests admitted so far

vars == <<backend, pastes, now, pc, loc, ev, edited, served>>

\* the result of .first() when no row matches
NoPaste == 0
\* a nullable column holding NULL
Null == <<>>

NoLocals == [slug |-> <<>>]

Event(op, content, password, slug, custom, outcome, error) ==
    [op |-> op, content |-> content, password |-> password, slug |-> slug,
     custom |-> custom, outcome |-> outcome, error |-> error]

NoEvent == Event("none", "", "", <<>>, <<>>, "none", "none")

(***************************************************************************)
(* The Paste table.                                                        *)
(***************************************************************************)
\* Paste(slug=..., content=..., password_hash=...) as the INSERT stores it:
\* created_at takes its default, updated_at stays NULL
new_paste(rows, slug, content, pwhash, t) ==
    [id |-> Len(rows) + 1, slug |-> slug, content |-> content,
     password_hash |-> pwhash, created_at |-> t, updated_at |-> Null]

\* Paste.query.filter_by(slug=slug).first()
query_first(rows, slug) ==
    LET hits == {i \in 1..Len(rows) : rows[i].slug = slug}
    IN  IF hits = {} THEN NoPaste ELSE CHOOSE i \in hits : \A j \in hits : i <= j

\* unique=True on Paste.slug: the INSERT of a slug some row holds is rejected
violates_unique_off(rows, slug) == FALSE
violates_unique(rows, slug) == \E i \in 1..Len(rows) : rows[i].slug = slug

\* db.String(80): PostgreSQL rejects a longer value, SQLite stores it
exceeds_column(be, slug) == be = "postgresql" /\ Len(slug) > SlugColumnLen

\* the exception db.session.commit() raises for the INSERT, or "none"
insert_error(be, rows, slug, fault) ==
    IF fault THEN "OperationalError"
    ELSE IF exceeds_column(be, slug) THEN "DataError"
    ELSE IF violates_unique(rows, slug) THEN "IntegrityError"
    ELSE "none"

\* the session flushes an UPDATE only for an attribute whose value differs
\* from the value it loaded
is_modified(loaded, value) == value # loaded

\* UPDATE paste SET content=?, updated_at=? WHERE id=?  (onupdate fills updated_at)
update_content(rows, id, content, t) ==
    [rows EXCEPT ![id].content = content, ![id].updated_at = <<t>>]

\* view_paste(slug): the paste the page shows, or 404
view_paste(rows, slug) ==
    LET id == query_first(rows, slug)
    IN  IF id = NoPaste THEN [outcome |-> "NotFound", content |-> ""]
        ELSE [outcome |-> "Found", content |-> rows[id].content]

(***************************************************************************)
(* Slug allocation and the checks of the create handler.                   *)
(***************************************************************************)
\* one turn of the loop of generate_unique_slug: the token is returned when
\* no row holds it
token_is_free_unchecked(rows, token) == TRUE
token_is_free(rows, token) == query_first(rows, token) = NoPaste

\* the checks of index() before the paste is built, in order
index_validate_no_lookup(rows, content, password, custom_slug) ==
    IF is_empty(content) THEN "EmptyContent"
    ELSE IF is_empty(password) THEN "EmptyPassword"
    ELSE IF custom_slug # <<>> THEN
        IF ~is_safe_slug(custom_slug) THEN "InvalidFormat" ELSE "Custom"
    ELSE "Random"
index_validate(rows, content, password, custom_slug) ==
    IF is_empty(content) THEN "EmptyContent"
    ELSE IF is_empty(password) THEN "EmptyPassword"
    ELSE IF custom_slug # <<>> THEN
        IF ~is_safe_slug(custom_slug) THEN "InvalidFormat"
        ELSE IF query_first(rows, custom_slug) # NoPaste THEN "AlreadyTaken"
        ELSE "Custom"
    ELSE "Random"

\* the checks of edit_paste() on the loaded paste, in order
edit_validate(pwhash, new_content, password) ==
    IF is_empty(new_content) THEN "EmptyContent"
    ELSE IF is_empty(password) THEN "EmptyPassword"
    ELSE IF ~check_password_hash(pwhash, password) THEN "WrongPassword"
    ELSE "Checked"

Admit == served < MaxRequests
Quiet == ev = NoEvent

(***************************************************************************)
(* Initial state: an empty table on either database.                       *)
(***************************************************************************)
Init ==
    /\ backend \in Backends
    /\ pastes = <<>>
    /\ now = 0
    /\ pc = [w \in Workers |-> "idle"]
    /\ loc = [w \in Workers |-> NoLocals]
    /\ ev = NoEvent
    /\ edited = {}
    /\ served = 0

(***************************************************************************)
(* Handlers.                                                               *)
(***************************************************************************)
\* the clock advances
Tick ==
    /\ Quiet
    /\ now < MaxTime
    /\ now' = now + 1
    /\ UNCHANGED <<backend, pastes, pc, loc, ev, edited, served>>

\* the response of the step just taken leaves the server; the next step of
\* any worker follows it
Respond ==
    /\ ~Quiet
    /\ ev' = NoEvent
    /\ UNCHANGED <<backend, pastes, now, pc, loc, edited, served>>

\* GET / : the empty form
IndexGet(w) ==
    /\ Quiet
    /\ pc[w] = "idle"
    /\ ev' = Event("index_get", "", "", <<>>, <<>>, "Form", "none")
    /\ UNCHANGED <<backend, pastes, now, pc, loc, edited, served>>

\* POST / up to the allocation of the slug
IndexPost(w, content, password, raw_slug) ==
    LET custom_slug == strip(raw_slug)
        verdict == index_validate(pastes, content, password, custom_slug)
    IN  /\ Quiet
        /\ pc[w] = "idle"
        /\ IF verdict = "Custom" THEN
               /\ Admit
               /\ \E salt \in Salts :
                    loc' = [loc EXCEPT ![w] =
                              [slug |-> custom_slug, custom_slug |-> custom_slug,
                               content |-> content,
                               password_hash |-> generate_password_hash(password, salt)]]
               /\ pc' = [pc EXCEPT ![w] = "commit"]
               /\ served' = served + 1
           ELSE IF verdict = "Random" THEN
               /\ Admit
               /\ loc' = [loc EXCEPT ![w] =
                            [slug |-> <<>>, custom_slug |-> custom_slug,
                             content |-> content, password |-> password]]
               /\ pc' = [pc EXCEPT ![w] = "generate"]
               /\ served' = served + 1
           ELSE UNCHANGED <<pc, loc, served>>
        /\ ev' = Event("index_post", content, password, raw_slug, custom_slug, verdict, "none")
        /\ UNCHANGED <<backend, pastes, now, edited>>

\* one turn of the loop of generate_unique_slug, then the password hash
GenerateSlug(w, token) ==
    /\ Quiet
    /\ pc[w] = "generate"
    /\ IF token_is_free(pastes, token) THEN
           /\ \E salt \in Salts :
                loc' = [loc EXCEPT ![w] =
                          [slug |-> token, custom_slug |-> loc[w].custom_slug,
                           content |-> loc[w].content,
                           password_hash |->
                               generate_password_hash(loc[w].password, salt)]]
           /\ pc' = [pc EXCEPT ![w] = "commit"]
           /\ ev' = Event("generate_unique_slug", "", "", token, <<>>, "Returned", "none")
       ELSE
           /\ UNCHANGED <<pc, loc>>
           /\ ev' = Event("generate_unique_slug", "", "", token, <<>>, "Retry", "none")
    /\ UNCHANGED <<backend, pastes, now, edited, served>>

\* POST / from db.session.add to the response
IndexCommit(w, fault) ==
    LET error == insert_error(backend, pastes, loc[w].slug, fault)
    IN  /\ Quiet
        /\ pc[w] = "commit"
        /\ IF error = "none" THEN
               /\ pastes' = Append(pastes,
                      new_paste(pastes, loc[w].slug, loc[w].content,
                                loc[w].password_hash, now))
               /\ ev' = Event("index_commit", loc[w].content, "", loc[w].slug,
                              loc[w].custom_slug, "Created", "none")
           ELSE
               /\ UNCHANGED pastes
               /\ ev' = Event("index_commit", loc[w].content, "", loc[w].slug,
                              loc[w].custom_slug, "PersistenceError", error)
        /\ pc' = [pc EXCEPT ![w] = "idle"]
        /\ loc' = [loc EXCEPT ![w] = NoLocals]
        /\ UNCHANGED <<backend, now, edited, served>>

\* GET /<slug>
ViewPaste(w, slug) ==
    /\ Quiet
    /\ pc[w] = "idle"
    /\ ev' = Event("view_paste", view_paste(pastes, slug).content, "", slug, <<>>,
                   view_paste(pastes, slug).outcome, "none")
    /\ UNCHANGED <<backend, pastes, now, pc, loc, edited, served>>

\* /<slug>/edit: the query that loads the paste, or 404
EditQuery(w, slug) ==
    LET id == query_first(pastes, slug)
    IN  /\ Quiet
        /\ pc[w] = "idle"
        /\ IF id = NoPaste THEN
               /\ UNCHANGED <<pc, loc, served>>
               /\ ev' = Event("edit_query", "", "", slug, <<>>, "NotFound", "none")
           ELSE
               /\ Admit
               /\ pc' = [pc EXCEPT ![w] = "edit"]
               /\ loc' = [loc EXCEPT ![w] =
                            [slug |-> slug, id |-> id, content |-> pastes[id].content,
                             password_hash |-> pastes[id].password_hash]]
               /\ served' = served + 1
               /\ ev' = Event("edit_query", "", "", slug, <<>>, "Loaded", "none")
        /\ UNCHANGED <<backend, pastes, now, edited>>

\* GET /<slug>/edit: the form with the loaded content
EditGet(w) ==
    /\ Quiet
    /\ pc[w] = "edit"
    /\ ev' = Event("edit_get", loc[w].content, "", loc[w].slug, <<>>, "Form", "none")
    /\ pc' = [pc EXCEPT ![w] = "idle"]
    /\ loc' = [loc EXCEPT ![w] = NoLocals]
    /\ UNCHANGED <<backend, pastes, now, edited, served>>

\* POST /<slug>/edit on the loaded paste
EditPost(w, new_content, password, fault) ==
    LET id == loc[w].id
        verdict == edit_validate(loc[w].password_hash, new_content, password)
        outcome == IF verdict # "Checked" THEN verdict
                   ELSE IF fault THEN "PersistenceError"
                   ELSE "Updated"
    IN  /\ Quiet
        /\ pc[w] = "edit"
        /\ IF outcome = "Updated" /\ is_modified(loc[w].content, new_content)
           THEN pastes' = update_content(pastes, id, new_content, now)
           ELSE UNCHANGED pastes
        /\ edited' = IF outcome = "Updated" THEN edited \cup {id} ELSE edited
        /\ ev' = Event("edit_post", new_content, password, loc[w].slug, <<>>, outcome,
                       IF outcome = "PersistenceError" THEN "OperationalError"
                       ELSE "none")
        /\ pc' = [pc EXCEPT ![w] = "idle"]
        /\ loc' = [loc EXCEPT ![w] = NoLocals]
        /\ UNCHANGED <<backend, now, served>>

Next ==
    \/ Tick
    \/ Respond
    \/ \E w \in Workers : IndexGet(w)
    \/ \E w \in Workers, content \in CreateContents, password \in CreatePasswords,
          raw_slug \in FormSlugs : IndexPost(w, content, password, raw_slug)
    \/ \E w \in Workers, token \in Tokens : GenerateSlug(w, token)
    \/ \E w \in Workers, fault \in BOOLEAN : IndexCommit(w, fault)
    \/ \E w \in Workers, slug \in UrlSlugs : ViewPaste(w, slug)
    \/ \E w \in Workers, slug \in UrlSlugs : EditQuery(w, slug)
    \/ \E w \in Workers : EditGet(w)
    \/ \E w \in Workers, new_content \in EditContents, password \in EditPasswords,
          fault \in BOOLEAN : EditPost(w, new_content, password, fault)

Spec == Init /\ [][Next]_vars

(***************************************************************************)
(* Notions the properties are stated with.                                 *)
(***************************************************************************)
\* the row a slug names (the slug is held by some row)
PasteOf(rows, slug) == rows[query_first(rows, slug)]

Owned(rows, slug) == \E i \in 1..Len(rows) : rows[i].slug = slug

\* the password a stored hash was made from
CreationPassword(row) == row.password_hash.digest[2]

\* non-empty and made of ASCII letters, digits, hyphen, underscore only
ValidSlug(s) == s # <<>> /\ \A i \in 1..Len(s) : s[i] \in SlugChars

\* some character is outside [a-zA-Z0-9_-]
HasBadChar(s) == \E i \in 1..Len(s) : s[i] \notin SlugChars

\* some character outside the class is not leading or trailing whitespace:
\* it is no whitespace, or it stands between two characters that are none
HasBadCharInside(s) ==
    \E i \in 1..Len(s) :
        /\ s[i] \notin SlugChars
        /\ \/ s[i] \notin Whitespace
           \/ /\ \E j \in 1..(i - 1) : s[j] \notin Whitespace
              /\ \E k \in (i + 1)..Len(s) : s[k] \notin Whitespace

\* the step just taken is the first step of a create with content and password
CreateSubmitted(e) == e.op = "index_post" /\ e.content # "" /\ e.password # ""

\* the request of the step just taken ended with it: no worker moved on
RequestEnded == pc' = pc /\ loc' = loc

(***************************************************************************)
(* C1                                                                      *)
(***************************************************************************)
\* C1: in every reachable state, whatever creates and updates ran and however
\* they interleaved, no two rows of the Paste table hold the same slug.
C1_SlugUnique ==
    \A i, j \in 1..Len(pastes) : pastes[i].slug = pastes[j].slug => i = j

\* two creators passed the lookup for one slug; the second INSERT was refused
C1_Witness ==
    /\ ev.op = "index_commit"
    /\ ev.error = "IntegrityError"
    /\ Owned(pastes, ev.slug)

(***************************************************************************)
(* C2                                                                      *)
(***************************************************************************)
\* C2: an update with non-empty content and a non-empty password other than
\* the one given at creation answers WrongPassword and leaves the row's
\* content and updated_at as they were; a get then shows the old content.
C2_WrongPasswordKeepsPaste ==
    [][(/\ ev'.op = "edit_post"
        /\ ev'.content # ""
        /\ ev'.password # ""
        /\ ev'.password # CreationPassword(PasteOf(pastes, ev'.slug)))
       => /\ ev'.outcome = "WrongPassword"
          /\ PasteOf(pastes', ev'.slug).content = PasteOf(pastes, ev'.slug).content
          /\ PasteOf(pastes', ev'.slug).updated_at
                 = PasteOf(pastes, ev'.slug).updated_at
          /\ view_paste(pastes', ev'.slug).outcome = "Found"
          /\ view_paste(pastes', ev'.slug).content
                 = PasteOf(pastes, ev'.slug).content]_vars

\* a wrong password was refused for content that differs from the stored one
C2_Witness ==
    /\ ev.op = "edit_post"
    /\ ev.outcome = "WrongPassword"
    /\ ev.password # CreationPassword(PasteOf(pastes, ev.slug))
    /\ ev.content # PasteOf(pastes, ev.slug).content

(***************************************************************************)
(* C3                                                                      *)
(***************************************************************************)
\* C3: a create with content, password and a valid custom slug that no row
\* holds succeeds (the database being up), and a get of the slug then shows
\* the submitted content.
C3_ValidCustomSlugCreates ==
    [][(/\ ev'.op = "index_commit"
        /\ ev'.custom # <<>>
        /\ ValidSlug(ev'.custom)
        /\ ~Owned(pastes, ev'.custom)
        /\ ev'.error # "OperationalError")
       => /\ ev'.outcome = "Created"
          /\ view_paste(pastes', ev'.custom).outcome = "Found"
          /\ view_paste(pastes', ev'.custom).content = ev'.content]_vars

(***************************************************************************)
(* C4                                                                      *)
(***************************************************************************)
\* C4: a create with content, password and, as custom_slug, exactly a slug
\* some row holds answers AlreadyTaken, adds no row and leaves every row as
\* it was.
C4_TakenSlugRefused ==
    [][(CreateSubmitted(ev') /\ Owned(pastes, ev'.slug))
       => /\ ev'.outcome = "AlreadyTaken"
          /\ pastes' = pastes
          /\ RequestEnded]_vars

\* a create named the slug of a row that an edit had changed before
C4_Witness ==
    /\ CreateSubmitted(ev)
    /\ ev.outcome = "AlreadyTaken"
    /\ Owned(pastes, ev.slug)
    /\ PasteOf(pastes, ev.slug).updated_at # Null

(***************************************************************************)
(* C5                                                                      *)
(***************************************************************************)
\* C5 as stated: a create (with content and password) whose custom_slug holds
\* a character outside [a-zA-Z0-9_-], leading or trailing whitespace and
\* newline included, answers InvalidFormat.
C5_AnyBadCharRefused ==
    CreateSubmitted(ev) /\ HasBadChar(ev.slug) => ev.outcome = "InvalidFormat"

\* C5 as amended: a create (with content and password) whose custom_slug holds
\* a character outside [a-zA-Z0-9_-] that is not leading or trailing whitespace
\* answers InvalidFormat, and no row is added.
C5_BadCharInsideRefused ==
    [][(CreateSubmitted(ev') /\ HasBadCharInside(ev'.slug))
       => /\ ev'.outcome = "InvalidFormat"
          /\ pastes' = pastes
          /\ RequestEnded]_vars

\* a slug with whitespace between its characters was refused
C5_Witness ==
    /\ CreateSubmitted(ev)
    /\ ev.outcome = "InvalidFormat"
    /\ \E i \in 1..Len(ev.slug) : ev.slug[i] \in Whitespace

(***************************************************************************)
(* C6                                                                      *)
(***************************************************************************)
\* C6: when the INSERT of a create with a custom slug is refused by the
\* uniqueness constraint, the create answers AlreadyTaken.
C6_LostRaceIsAlreadyTaken ==
    (/\ ev.op = "index_commit"
     /\ ev.custom # <<>>
     /\ ev.error = "IntegrityError")
    => ev.outcome = "AlreadyTaken"

(***************************************************************************)
(* C7                                                                      *)
(***************************************************************************)
\* C7: an update of an existing slug with non-empty content and the creation
\* password, whose write the database accepts, sets content to the submitted
\* content (equal to the stored one or not) and updated_at to the current
\* time, and leaves slug, created_at and password_hash as they were.
C7_UpdateSetsContentAndTime ==
    [][(/\ ev'.op = "edit_post"
        /\ ev'.content # ""
        /\ ev'.password # ""
        /\ ev'.password = CreationPassword(PasteOf(pastes, ev'.slug))
        /\ ev'.error = "none")
       => /\ ev'.outcome = "Updated"
          /\ Len(pastes') = Len(pastes)
          /\ PasteOf(pastes', ev'.slug).content = ev'.content
          /\ PasteOf(pastes', ev'.slug).updated_at = <<now>>
          /\ PasteOf(pastes', ev'.slug).slug = PasteOf(pastes, ev'.slug).slug
          /\ PasteOf(pastes', ev'.slug).created_at
                 = PasteOf(pastes, ev'.slug).created_at
          /\ PasteOf(pastes', ev'.slug).password_hash
                 = PasteOf(pastes, ev'.slug).password_hash]_vars

(***************************************************************************)
(* C8                                                                      *)
(***************************************************************************)
\* C8: the slug generate_unique_slug returns is held by no row of the table
\* at the moment it returns, whatever the table holds.
C8_RandomSlugIsFree ==
    (ev.op = "generate_unique_slug" /\ ev.outcome = "Returned")
    => ~Owned(pastes, ev.slug)

\* a slug was returned against a table that holds rows
C8_Witness ==
    /\ ev.op = "generate_unique_slug"
    /\ ev.outcome = "Returned"
    /\ Len(pastes) >= 1

(***************************************************************************)
(* C9                                                                      *)
(***************************************************************************)
\* what makes a request a validation failure, told from its inputs
CreateIsInvalid(e, rows) ==
    /\ e.op = "index_post"
    /\ \/ e.content = ""
       \/ e.password = ""
       \/ HasBadCharInside(e.slug)
       \/ Owned(rows, e.slug)

EditIsInvalid(e, rows) ==
    \/ e.op = "edit_query" /\ ~Owned(rows, e.slug)
    \/ /\ e.op = "edit_post"
       /\ \/ e.content = ""
          \/ e.password = ""
          \/ e.password # CreationPassword(PasteOf(rows, e.slug))

ValidationFailures ==
    {"EmptyContent", "EmptyPassword", "InvalidFormat", "AlreadyTaken",
     "NotFound", "WrongPassword"}

\* C9: a request that ends in a validation failure (create: empty content,
\* empty password, invalid or taken slug; update: unknown slug, empty content,
\* empty password, wrong password) is answered with that failure and leaves
\* the table as it was: no row is added, none is changed.
C9_ValidationFailureKeepsStore ==
    [][(CreateIsInvalid(ev', pastes) \/ EditIsInvalid(ev', pastes)
        \/ ev'.outcome \in ValidationFailures)
       => /\ ev'.outcome \in ValidationFailures
          /\ pastes' = pastes
          /\ ev'.op = "index_post" => RequestEnded]_vars

\* an edit with the right password was refused for its empty content
C9_Witness ==
    /\ ev.op = "edit_post"
    /\ ev.outcome = "EmptyContent"
    /\ ev.password = CreationPassword(PasteOf(pastes, ev.slug))

(***************************************************************************)
(* C10                                                                     *)
(***************************************************************************)
\* C10: in every reachable state a row's updated_at is NULL if no update of
\* the row has succeeded, and otherwise is at or after its created_at; and
\* created_at never changes once the row exists.
C10_UpdatedAtTellsEdits ==
    [][/\ \A i \in 1..Len(pastes') :
            IF i \in edited'
            THEN /\ pastes'[i].updated_at # Null
                 /\ pastes'[i].updated_at[1] >= pastes'[i].created_at
            ELSE pastes'[i].updated_at = Null
       /\ \A i \in 1..Len(pastes) :
            /\ i <= Len(pastes')
            /\ pastes'[i].created_at = pastes[i].created_at]_vars

====
